---- MODULE Spec2Model ----
(***************************************************************************)
(* The pet-listing CRUD backend of backend/main.py: six FastAPI handlers   *)
(* over one MongoDB collection.  Every store round trip of a handler is    *)
(* one atomic step; the handlers with several round trips (create_pet,     *)
(* update_pet) are in flight between them, and other requests interleave.  *)
(***************************************************************************)
EXTENDS Integers, Sequences, FiniteSets, Bags, TLC

\* ---------------------------------------------------------------- bounds
MaxIds == 2            \* documents ever inserted
MaxClock == 2          \* clock readings 0..MaxClock, in ticks
MaxReqs == 2           \* create_pet / update_pet handlers in flight at once

\* ---------------------------------------------------------------- values
None == <<>>                       \* Python None / JSON null
Str(s) == <<"str", s>>             \* an optional text value
IntAge(n) == <<"int", n>>          \* age given as an integer

Fields == {"breed", "pet_type", "age", "rate", "description", "image_url"}

\* Request bodies that pass validation: the required fields present, the
\* optional ones present or omitted.  rate is in eighths of a rupee.
Bodies ==
  { [breed |-> "Labrador", pet_type |-> "dog", age |-> IntAge(2), rate |-> 156,
     description |-> Str("calm"), image_url |-> Str("lab.png")],
    [breed |-> "Beagle", pet_type |-> "dog", rate |-> 1] }

\* Faulty variant of Pet: the dump leaves out the fields the body did not set.
Pet_unset(body) == body

\* class Pet(BaseModel): an omitted optional field takes its default, None.
Pet(body) == [f \in Fields |-> IF f \in DOMAIN body THEN body[f] ELSE None]

\* ------------------------------------------------------------ identifiers
IdLen == 24
HexLower == <<"0","1","2","3","4","5","6","7","8","9","a","b","c","d","e","f">>
HexUpper == <<"0","1","2","3","4","5","6","7","8","9","A","B","C","D","E","F">>
HexChars == {HexLower[i] : i \in 1..16} \cup {HexUpper[i] : i \in 1..16}
HexVal == [c \in HexChars |->
             CHOOSE v \in 0..15 : HexLower[v + 1] = c \/ HexUpper[v + 1] = c]

\* bson.ObjectId(str): InvalidId unless the string is 24 hex characters.
ValidId(s) == Len(s) = IdLen /\ \A i \in 1..Len(s) : s[i] \in HexChars
ObjectId(s) == [i \in 1..IdLen |-> HexVal[s[i]]]
\* str(ObjectId): 24 lower-case hex characters.
StrOfId(oid) == [i \in 1..IdLen |-> HexLower[oid[i] + 1]]

\* The n-th identifier the driver generates for insert_one.
NewObjectId(n) == [i \in 1..IdLen |-> IF i = IdLen THEN 9 + n ELSE 0]
Upper(s) == [i \in 1..Len(s) |->
               IF s[i] \in HexChars THEN HexUpper[HexVal[s[i]] + 1] ELSE s[i]]
\* The identifiers of the documents, as the responses carry them.
IdString == [n \in 1..MaxIds |-> StrOfId(NewObjectId(n))]

\* A well-formed identifier the driver never generates, in upper case.
StrangerId == Upper([i \in 1..IdLen |-> "f"])
\* Strings that are no identifier: too short, and of the right length with
\* a character that is no hex digit.
Malformed == { <<"x", "y", "z">>, [i \in 1..IdLen |-> IF i = 1 THEN "g" ELSE "0"] }

\* ------------------------------------------------------------- timestamps
TicksPerSecond == 2
\* datetime.now(ist).strftime("%Y-%m-%d %H:%M:%S"): the reading in whole
\* seconds; the format orders as the seconds do.
Timestamp(t) == <<"ts", t \div TicksPerSecond>>

\* ------------------------------------------------------------------ state
VARIABLES
  pets_collection,  \* the collection, in storage order: a sequence of documents
  nextId,           \* how many identifiers the driver has generated
  clock,            \* the wall clock, in ticks
  inflight,         \* the create_pet / update_pet handlers between two round
                    \*   trips: a bag of their positions and local variables
  response,         \* the response sent by the last step, if it sent one
  fresh,            \* history: per document inserted and not updated since,
                    \*   the body its create was sent
  updates           \* history: per updated document, the update applied last
                    \*   and the latest timestamp any applied update took

vars == <<pets_collection, nextId, clock, inflight, response, fresh, updates>>

\* What a step sends and logs: the handler, its path parameter, the status,
\* the JSON body, and the line given to logging.
NoResponse == [op |-> "none", pet_id |-> <<>>, status |-> 0, body |-> <<>>,
               log |-> <<>>]

\* ------------------------------------------------------- store primitives
Matches(coll, oid) == SelectSeq(coll, LAMBDA d : d["_id"] = oid)
Stored(coll, oid) == Len(Matches(coll, oid)) > 0
FirstMatch(coll, oid) == CHOOSE i \in 1..Len(coll) :
                           /\ coll[i]["_id"] = oid
                           /\ \A j \in 1..(i - 1) : coll[j]["_id"] # oid

\* Faulty variant of InsertOne: the document goes in without its created_at.
InsertOne_unstamped(coll, oid, doc) ==
  Append(coll, ("_id" :> oid) @@ [f \in DOMAIN doc \ {"created_at"} |-> doc[f]])

\* insert_one: the driver adds the generated _id and appends the document.
InsertOne(coll, oid, doc) == Append(coll, ("_id" :> oid) @@ doc)

\* Faulty variant of SetFields: a field the document already has is kept.
SetFields_merge(doc, data) ==
  [f \in DOMAIN doc \cup DOMAIN data |->
     IF f \in DOMAIN doc THEN doc[f] ELSE data[f]]

\* Faulty variant of SetFields: updated_at only ever moves forward.
SetFields_max(doc, data) ==
  [f \in DOMAIN doc \cup DOMAIN data |->
     IF f \notin DOMAIN data THEN doc[f]
     ELSE IF f = "updated_at" /\ f \in DOMAIN doc /\ doc[f][2] > data[f][2]
          THEN doc[f] ELSE data[f]]

\* {"$set": data}: the named fields are overwritten, the others kept.
SetFields(doc, data) ==
  [f \in DOMAIN doc \cup DOMAIN data |->
     IF f \in DOMAIN data THEN data[f] ELSE doc[f]]

\* Faulty variant of UpdateOne: upsert, a document is inserted when none matches.
UpdateOne_upsert(coll, oid, data) ==
  IF Stored(coll, oid)
  THEN [coll |-> [coll EXCEPT ![FirstMatch(coll, oid)] = SetFields(@, data)],
        matched_count |-> 1]
  ELSE [coll |-> Append(coll, ("_id" :> oid) @@ data), matched_count |-> 0]

\* Faulty variant of UpdateOne: the matching document is replaced, not patched.
UpdateOne_replace(coll, oid, data) ==
  IF Stored(coll, oid)
  THEN [coll |-> [coll EXCEPT ![FirstMatch(coll, oid)] = ("_id" :> oid) @@ data],
        matched_count |-> 1]
  ELSE [coll |-> coll, matched_count |-> 0]

\* update_one: the first matching document is changed, none is inserted.
UpdateOne(coll, oid, data) ==
  IF Stored(coll, oid)
  THEN [coll |-> [coll EXCEPT ![FirstMatch(coll, oid)] = SetFields(@, data)],
        matched_count |-> 1]
  ELSE [coll |-> coll, matched_count |-> 0]

\* delete_one: the first matching document is removed.
DeleteOne(coll, oid) ==
  IF Stored(coll, oid)
  THEN LET k == FirstMatch(coll, oid)
       IN [coll |-> SubSeq(coll, 1, k - 1) \o SubSeq(coll, k + 1, Len(coll)),
           deleted_count |-> 1]
  ELSE [coll |-> coll, deleted_count |-> 0]

\* Faulty variant of DeleteMany: only the first document is removed.
DeleteMany_first(coll) ==
  [coll |-> IF coll = <<>> THEN <<>> ELSE Tail(coll),
   deleted_count |-> IF coll = <<>> THEN 0 ELSE 1]

\* delete_many({}): every document is removed.
DeleteMany(coll) == [coll |-> <<>>, deleted_count |-> Len(coll)]

\* ---------------------------------------------------------------- codec
Get(pet, f) == IF f \in DOMAIN pet THEN pet[f] ELSE None

\* f"{rate:.2f}": the hundredths nearest to rate (an exact binary
\* fraction, so a tie goes to the even neighbour), behind the rupee sign,
\* written "Rs" here.
FormatRate(r) ==
  LET q == (25 * r) \div 2
      cents == IF (25 * r) % 2 = 0 THEN q ELSE IF q % 2 = 0 THEN q ELSE q + 1
  IN <<"Rs", cents \div 100, ".", (cents % 100) \div 10, cents % 10>>

ContactNumber == "7036131241"

\* Faulty variant of pet_serializer: updated_at is read from created_at.
pet_serializer_stamped(pet) ==
  [id |-> StrOfId(pet["_id"]),
   breed |-> pet["breed"],
   pet_type |-> pet["pet_type"],
   age |-> Get(pet, "age"),
   rate |-> FormatRate(pet["rate"]),
   description |-> Get(pet, "description"),
   image_url |-> Get(pet, "image_url"),
   contact_number |-> ContactNumber,
   created_at |-> Get(pet, "created_at"),
   updated_at |-> Get(pet, "created_at")]

pet_serializer(pet) ==
  [id |-> StrOfId(pet["_id"]),
   breed |-> pet["breed"],
   pet_type |-> pet["pet_type"],
   age |-> Get(pet, "age"),
   rate |-> FormatRate(pet["rate"]),
   description |-> Get(pet, "description"),
   image_url |-> Get(pet, "image_url"),
   contact_number |-> ContactNumber,
   created_at |-> Get(pet, "created_at"),
   updated_at |-> Get(pet, "updated_at")]

HTTPException(op, pet_id, status, detail, log) ==
  [op |-> op, pet_id |-> pet_id, status |-> status, body |-> <<"detail", detail>>,
   log |-> log]
Ok(op, pet_id, body, log) ==
  [op |-> op, pet_id |-> pet_id, status |-> 200, body |-> body, log |-> log]
\* An exception no handler catches: the framework's bare 500.
Unhandled(op, pet_id) ==
  [op |-> op, pet_id |-> pet_id, status |-> 500,
   body |-> <<"unhandled", "TypeError">>, log |-> <<>>]

\* ------------------------------------------------------------ bookkeeping
Max(a, b) == IF a >= b THEN a ELSE b
Without(h, oid) == {e \in h : e.id # oid}
Entry(h, oid) == CHOOSE e \in h : e.id = oid
Known(h, oid) == \E e \in h : e.id = oid
Handlers == BagToSet(inflight)
At(stage) == {h \in Handlers : h.pc = stage}
Moves(h, to) == (inflight (-) SetToBag({h})) (+) to
Number(stage) == BagCardinality([h \in At(stage) |-> CopiesIn(h, inflight)])

\* Path parameters the clients send: an identifier is known to a client
\* once its document is in the store (the driver generates it on insert);
\* besides these the stranger and the malformed strings.
PetIds == {IdString[n] : n \in 1..nextId} \cup {StrangerId} \cup Malformed

Init ==
  /\ pets_collection = <<>>
  /\ nextId = 0
  /\ clock = 0
  /\ inflight = EmptyBag
  /\ response = NoResponse
  /\ fresh = {}
  /\ updates = {}

\* ---------------------------------------------------------------- clock
Tick ==
  /\ clock < MaxClock
  /\ clock' = clock + 1
  /\ response' = NoResponse
  /\ UNCHANGED <<pets_collection, nextId, inflight, fresh, updates>>

\* ------------------------------------------------------------ create_pet
\* pet.dict() and the clock reading; the insert is the next round trip.
CreatePet(body) ==
  /\ BagCardinality(inflight) < MaxReqs
  /\ nextId + Number("insert") < MaxIds
  /\ inflight' = inflight (+) SetToBag({
       [pc |-> "insert",
        pet_dict |-> Pet(body) @@ ("created_at" :> Timestamp(clock)),
        body |-> body]})
  /\ response' = NoResponse
  /\ UNCHANGED <<pets_collection, nextId, clock, fresh, updates>>

\* insert_one succeeds.
CreateInsert(h) ==
  /\ h.pc = "insert"
  /\ LET oid == NewObjectId(nextId + 1)
     IN /\ pets_collection' = InsertOne(pets_collection, oid, h.pet_dict)
        /\ inflight' = Moves(h, SetToBag({[pc |-> "find", inserted_id |-> oid]}))
        /\ fresh' = fresh \cup {[id |-> oid, body |-> h.body]}
  /\ nextId' = nextId + 1
  /\ response' = NoResponse
  /\ UNCHANGED <<clock, updates>>

\* insert_one raises: except Exception turns it into the 500.
CreateInsertFails(h) ==
  /\ h.pc = "insert"
  /\ inflight' = Moves(h, EmptyBag)
  /\ response' = HTTPException("create_pet", <<>>, 500, "Error creating pet",
                                <<"Error creating pet: ", "insert_one failed">>)
  /\ UNCHANGED <<pets_collection, nextId, clock, fresh, updates>>

\* find_one on the inserted id; no document raises a 500 inside the try,
\* which except Exception logs and replaces by its own 500.
CreateFind(h) ==
  /\ h.pc = "find"
  /\ LET m == Matches(pets_collection, h.inserted_id)
     IN response' =
          IF Len(m) = 0
          THEN HTTPException("create_pet", <<>>, 500, "Error creating pet",
                 <<"Error creating pet: ", "500: Failed to retrieve inserted pet">>)
          ELSE Ok("create_pet", <<>>, pet_serializer(m[1]),
                  <<"Pet created with ID: ", pet_serializer(m[1]).id>>)
  /\ inflight' = Moves(h, EmptyBag)
  /\ UNCHANGED <<pets_collection, nextId, clock, fresh, updates>>

\* -------------------------------------------------------------- get_pets
GetPets ==
  /\ response' = Ok("get_pets", <<>>,
                    [i \in 1..Len(pets_collection) |->
                       pet_serializer(pets_collection[i])], <<>>)
  /\ UNCHANGED <<pets_collection, nextId, clock, inflight, fresh, updates>>

\* Faulty variant of GetPet: a string that is no identifier is looked up and not
\* found.
GetPet_lenient(pet_id) ==
  /\ response' =
       IF ~ValidId(pet_id)
       THEN HTTPException("get_pet", pet_id, 404, "Pet not found", <<>>)
       ELSE LET m == Matches(pets_collection, ObjectId(pet_id))
            IN IF Len(m) > 0
               THEN Ok("get_pet", pet_id, pet_serializer(m[1]), <<>>)
               ELSE HTTPException("get_pet", pet_id, 404, "Pet not found", <<>>)
  /\ UNCHANGED <<pets_collection, nextId, clock, inflight, fresh, updates>>

\* --------------------------------------------------------------- get_pet
GetPet(pet_id) ==
  /\ response' =
       IF ~ValidId(pet_id)
       THEN HTTPException("get_pet", pet_id, 400, "Invalid pet ID format", <<>>)
       ELSE LET m == Matches(pets_collection, ObjectId(pet_id))
            IN IF Len(m) > 0
               THEN Ok("get_pet", pet_id, pet_serializer(m[1]), <<>>)
               ELSE HTTPException("get_pet", pet_id, 404, "Pet not found", <<>>)
  /\ UNCHANGED <<pets_collection, nextId, clock, inflight, fresh, updates>>

\* ------------------------------------------------------------ update_pet
\* ObjectId(pet_id), model_dump() and the clock reading.
UpdatePet(pet_id, body) ==
  /\ BagCardinality(inflight) < MaxReqs
  /\ IF ~ValidId(pet_id)
     THEN /\ response' = HTTPException("update_pet", pet_id, 400,
                                       "Invalid pet ID format", <<>>)
          /\ UNCHANGED inflight
     ELSE /\ inflight' = inflight (+) SetToBag({
               [pc |-> "write",
                pet_id |-> pet_id,
                pet_data |-> Pet(body) @@ ("updated_at" :> Timestamp(clock)),
                body |-> body]})
          /\ response' = NoResponse
  /\ UNCHANGED <<pets_collection, nextId, clock, fresh, updates>>

\* update_one; matched_count == 0 raises the 404.
UpdateWrite(h) ==
  /\ h.pc = "write"
  /\ LET oid == ObjectId(h.pet_id)
         ts == h.pet_data["updated_at"]
         result == UpdateOne(pets_collection, oid, h.pet_data)
     IN IF result.matched_count # 0
        THEN /\ pets_collection' = result.coll
             /\ inflight' = Moves(h, SetToBag({[pc |-> "readback", pet_id |-> h.pet_id]}))
             /\ response' = NoResponse
             /\ fresh' = Without(fresh, oid)
             /\ updates' = Without(updates, oid) \cup
                  {[id |-> oid, body |-> h.body, ts |-> ts,
                    latest |-> IF Known(updates, oid)
                               THEN Max(Entry(updates, oid).latest, ts[2]) ELSE ts[2]]}
        ELSE /\ pets_collection' = result.coll
             /\ response' = HTTPException("update_pet", h.pet_id, 404,
                                          "Pet not found", <<>>)
             /\ inflight' = Moves(h, EmptyBag)
             /\ UNCHANGED <<fresh, updates>>
  /\ UNCHANGED <<nextId, clock>>

\* find_one and pet_serializer; on no document pet_serializer(None) raises
\* TypeError, which nothing catches.
UpdateReadback(h) ==
  /\ h.pc = "readback"
  /\ LET m == Matches(pets_collection, ObjectId(h.pet_id))
     IN response' = IF Len(m) = 0
                    THEN Unhandled("update_pet", h.pet_id)
                    ELSE Ok("update_pet", h.pet_id, pet_serializer(m[1]), <<>>)
  /\ inflight' = Moves(h, EmptyBag)
  /\ UNCHANGED <<pets_collection, nextId, clock, fresh, updates>>

\* ------------------------------------------------------------ delete_pet
DeletePet(pet_id) ==
  /\ IF ~ValidId(pet_id)
     THEN /\ response' = HTTPException("delete_pet", pet_id, 400,
                                       "Invalid pet ID format", <<>>)
          /\ UNCHANGED <<pets_collection, fresh, updates>>
     ELSE LET oid == ObjectId(pet_id)
              result == DeleteOne(pets_collection, oid)
          IN /\ pets_collection' = result.coll
             /\ IF result.deleted_count = 0
                THEN /\ response' = HTTPException("delete_pet", pet_id, 404,
                                                  "Pet not found", <<>>)
                     /\ UNCHANGED <<fresh, updates>>
                ELSE /\ response' = Ok("delete_pet", pet_id,
                                       <<"message", "Pet deleted successfully">>,
                                       <<"Pet deleted with ID: ", pet_id>>)
                     /\ fresh' = {e \in fresh : Stored(result.coll, e.id)}
                     /\ updates' = {e \in updates : Stored(result.coll, e.id)}
  /\ UNCHANGED <<nextId, clock, inflight>>

\* ------------------------------------------------------- delete_all_pets
DeleteAllPets ==
  /\ LET result == DeleteMany(pets_collection)
     IN /\ pets_collection' = result.coll
        /\ response' = Ok("delete_all_pets", <<>>,
                          <<"message", "Deleted ", result.deleted_count,
                            " pets successfully">>,
                          <<"Deleted ", result.deleted_count, " pets">>)
        /\ fresh' = {e \in fresh : Stored(result.coll, e.id)}
        /\ updates' = {e \in updates : Stored(result.coll, e.id)}
  /\ UNCHANGED <<nextId, clock, inflight>>

Next ==
  \/ Tick
  \/ \E body \in Bodies : CreatePet(body)
  \/ \E h \in Handlers : CreateInsert(h)
  \/ \E h \in Handlers : CreateInsertFails(h)
  \/ \E h \in Handlers : CreateFind(h)
  \/ GetPets
  \/ \E pet_id \in PetIds : GetPet(pet_id)
  \/ \E pet_id \in PetIds, body \in Bodies : UpdatePet(pet_id, body)
  \/ \E h \in Handlers : UpdateWrite(h)
  \/ \E h \in Handlers : UpdateReadback(h)
  \/ \E pet_id \in PetIds : DeletePet(pet_id)
  \/ DeleteAllPets

Spec == Init /\ [][Next]_vars

\* ================================================================ claims
Doc(oid) == Matches(pets_collection, oid)[1]
Sent(body, f) == IF f \in DOMAIN body THEN body[f] ELSE None
ByIdOps == {"get_pet", "update_pet", "delete_pet"}
\* The handler h makes its next round trip in this step.
Leaves(h) == CopiesIn(h, inflight') < CopiesIn(h, inflight)
Updating(oid) ==
  \E h \in At("write") \cup At("readback") : ObjectId(h.pet_id) = oid
Finding(oid) == \E h \in At("find") : h.inserted_id = oid

\* C1: get-one on a document that was created and that no update or delete
\* has touched since returns 200 with breed, pet_type, age, description and
\* image_url as submitted (null where omitted), the fixed contact number, a
\* created_at that is set and a null updated_at.
C1_CreateThenGet ==
  (response.op = "get_pet" /\ ValidId(response.pet_id)
     /\ Known(fresh, ObjectId(response.pet_id)))
  => /\ response.status = 200
     /\ LET sent == Entry(fresh, ObjectId(response.pet_id)).body
            out == response.body
        IN /\ \A f \in {"breed", "pet_type", "age", "description", "image_url"} :
                out[f] = Sent(sent, f)
           /\ out.contact_number = "7036131241"
           /\ out.created_at # None
           /\ out.updated_at = None
           /\ ObjectId(out.id) = ObjectId(response.pet_id)

\* C1 witness: a get-one answered for an untouched document whose create
\* has returned, sent without the optional fields.
C1_Witness ==
  /\ response.op = "get_pet" /\ response.status = 200
  /\ Known(fresh, ObjectId(response.pet_id))
  /\ ~Finding(ObjectId(response.pet_id))
  /\ response.body.age = None

\* C2 (as amended): get-one on a document to which an update has been
\* applied returns 200 with the values of the update applied last, its
\* clock reading as updated_at, and updated_at not earlier than created_at.
C2_UpdateThenGet ==
  (response.op = "get_pet" /\ ValidId(response.pet_id)
     /\ Known(updates, ObjectId(response.pet_id)))
  => /\ response.status = 200
     /\ LET e == Entry(updates, ObjectId(response.pet_id))
            out == response.body
        IN /\ \A f \in Fields \ {"rate"} : out[f] = Sent(e.body, f)
           /\ out.rate = FormatRate(e.body.rate)
           /\ out.updated_at = e.ts
           /\ out.created_at # None
           /\ out.updated_at[2] >= out.created_at[2]

\* C2 witness: a get-one after an update that took its reading in a later
\* second than the create.
C2_Witness ==
  /\ response.op = "get_pet" /\ response.status = 200
  /\ Known(updates, ObjectId(response.pet_id))
  /\ ~Updating(ObjectId(response.pet_id))
  /\ response.body.updated_at # None
  /\ response.body.updated_at[2] > response.body.created_at[2]

\* C2 as stated: updated_at is strictly later than created_at.
C2_StrictlyLater ==
  (response.op = "get_pet" /\ response.status = 200
     /\ Known(updates, ObjectId(response.pet_id)) /\ ~Updating(ObjectId(response.pet_id)))
  => /\ response.body.updated_at # None
     /\ response.body.created_at # None
     /\ response.body.updated_at[2] > response.body.created_at[2]

\* C3: get-one, update and delete-one on a string that is no identifier
\* answer 400 in the step that receives it, the store and the handlers in
\* flight unchanged; no handler in flight holds such a string.
C3_InvalidIdRejected ==
  /\ [](\A h \in At("write") \cup At("readback") : ValidId(h.pet_id))
  /\ [][(response'.op \in ByIdOps /\ ~ValidId(response'.pet_id))
          => /\ response'.status = 400
             /\ pets_collection' = pets_collection
             /\ inflight' = inflight]_vars

\* C3 witness: an update answered 400 while documents are stored.
C3_Witness ==
  /\ response.op = "update_pet" /\ response.status = 400
  /\ Len(response.pet_id) = IdLen
  /\ Len(pets_collection) > 0

\* C4: get-one and delete-one on a well-formed identifier with no stored
\* document, and an update whose write finds none, answer 404 and leave
\* the store as it was.
C4_UnknownIdNotFound ==
  [][/\ (response'.op \in {"get_pet", "delete_pet"} /\ ValidId(response'.pet_id)
           /\ ~Stored(pets_collection, ObjectId(response'.pet_id)))
         => (response'.status = 404 /\ pets_collection' = pets_collection)
     /\ \A h \in At("write") :
          (Leaves(h) /\ ~Stored(pets_collection, ObjectId(h.pet_id)))
            => /\ response'.op = "update_pet"
               /\ response'.pet_id = h.pet_id
               /\ response'.status = 404
               /\ pets_collection' = pets_collection]_vars

\* C4 witness: an update answered 404 for the identifier of a document
\* that was deleted.
C4_Witness ==
  /\ response.op = "update_pet" /\ response.status = 404
  /\ nextId > 0 /\ response.pet_id = IdString[1]
  /\ ~Stored(pets_collection, ObjectId(response.pet_id))

\* C5: delete-all empties the store and reports the number of documents it
\* held; the store then stays empty until a create inserts, and list-all
\* on the empty store returns the empty sequence.
C5_DeleteAll ==
  [][/\ response'.op = "delete_all_pets"
          => /\ pets_collection' = <<>>
             /\ response'.status = 200
             /\ response'.body = <<"message", "Deleted ", Len(pets_collection),
                                   " pets successfully">>
     /\ (response'.op = "get_pets" /\ pets_collection = <<>>)
          => (response'.status = 200 /\ response'.body = <<>>)
     /\ (pets_collection = <<>> /\ pets_collection' # <<>>)
          => \E h \in At("insert") : Leaves(h)]_vars

\* C5 witness: a delete-all that removed every document the bounds allow.
C5_Witness ==
  /\ response.op = "delete_all_pets"
  /\ response.body[3] = MaxIds
  /\ pets_collection = <<>>

\* C6: the write of an update that matches leaves the document with, for
\* every editable field, the payload's value (null where the payload
\* omitted it) and with the handler's clock reading as updated_at, also
\* when the payload equals what was stored.
C6_FullReplace ==
  [][\A h \in At("write") :
       (Leaves(h) /\ Stored(pets_collection, ObjectId(h.pet_id)))
         => /\ Stored(pets_collection', ObjectId(h.pet_id))
            /\ LET after == Matches(pets_collection', ObjectId(h.pet_id))[1]
               IN /\ \A f \in Fields : Get(after, f) = Sent(h.body, f)
                  /\ Get(after, "updated_at") = h.pet_data["updated_at"]
            /\ response'.op = "none"]_vars

\* C6 witness: an update is about to write a payload that equals the
\* stored values, omits the optional fields, and carries a later reading
\* than the updated_at stored by an earlier update.
C6_Witness ==
  \E h \in At("write") :
    /\ Stored(pets_collection, ObjectId(h.pet_id))
    /\ \A f \in Fields : Get(Doc(ObjectId(h.pet_id)), f) = Get(h.pet_data, f)
    /\ "age" \notin DOMAIN h.body
    /\ "updated_at" \in DOMAIN Doc(ObjectId(h.pet_id))
    /\ Doc(ObjectId(h.pet_id))["updated_at"][2] < h.pet_data["updated_at"][2]

C8_LastWriteWins ==
  \A e \in updates :
    /\ Stored(pets_collection, e.id)
    /\ Get(Doc(e.id), "updated_at") = e.ts
    /\ e.ts[2] <= e.latest

\* C8 witness: every update of a document has completed and its updated_at
\* is earlier than a reading one of them took.
C8_Witness ==
  \E e \in updates :
    /\ ~Updating(e.id)
    /\ inflight = EmptyBag
    /\ Doc(e.id)["updated_at"][2] < e.latest

\* C8 as stated: once the updates of a document have completed, updated_at
\* is the latest reading any of them took.
C8_LatestReading ==
  \A e \in updates :
    ~Updating(e.id) => Get(Doc(e.id), "updated_at") = <<"ts", e.latest>>

\* C9 as stated: an update on a well-formed identifier ends with the entity
\* (200) or with not-found (404).
C9_UpdateOutcome ==
  (response.op = "update_pet" /\ ValidId(response.pet_id))
    => response.status \in {200, 404}

\* C10 (as amended): a create whose read-back finds its document returns
\* the entity with the assigned id and the stored created_at; one whose
\* read-back finds none, or whose insert failed, returns the 500; an insert
\* that is applied appends the handler's document and nothing else.
C10_CreateOutcome ==
  [][/\ \A h \in At("find") :
          Leaves(h)
            => /\ response'.op = "create_pet"
               /\ IF Stored(pets_collection, h.inserted_id)
                  THEN /\ response'.status = 200
                       /\ response'.body.id = StrOfId(h.inserted_id)
                       /\ response'.body.created_at
                            = Get(Doc(h.inserted_id), "created_at")
                       /\ response'.body.created_at # None
                  ELSE response'.status = 500
     /\ \A h \in At("insert") :
          Leaves(h)
            => \/ /\ response'.op = "create_pet" /\ response'.status = 500
                  /\ pets_collection' = pets_collection
               \/ /\ response'.op = "none"
                  /\ Len(pets_collection') = Len(pets_collection) + 1
                  /\ SubSeq(pets_collection', 1, Len(pets_collection))
                       = pets_collection
                  /\ Get(pets_collection'[Len(pets_collection')], "created_at")
                       = h.pet_dict["created_at"]]_vars

\* C10 witness: a create answers 500 because its read-back found nothing.
C10_Witness ==
  /\ response.op = "create_pet" /\ response.status = 500
  /\ response.log[2] = "500: Failed to retrieve inserted pet"

\* C10 as stated: a create whose insert was applied returns the entity.
C10_InsertedReturnsEntity ==
  [][\A h \in At("find") :
       Leaves(h) => (response'.op = "create_pet" /\ response'.status = 200)]_vars

====
